---- MODULE Spec2Model ----
(***************************************************************************)
(* xtcp Server (server.go): the accept loop Serve, the shutdown Stop, the  *)
(* per-connection task handleRawConn and the registry helpers addConn and  *)
(* removeConn, as concurrently running goroutines over the Server fields   *)
(* stop, wg, mu, lis and conns.                                            *)
(*                                                                         *)
(* Every goroutine is a program counter. One action is one stretch of code *)
(* that no other goroutine can observe half-done: a statement on shared    *)
(* state, together with the statements on locals that follow it. A stretch *)
(* from s.mu.Lock() to s.mu.Unlock() is one action: the code between the   *)
(* two makes no call and cannot block, so the mutex makes it atomic. Under  *)
(* SpecMu s.mu.Lock() is a step of its own, and so is every Close or Stop  *)
(* call that follows an Unlock.                                            *)
(*                                                                         *)
(* Conn (NewConn, Conn.Stop, Conn.serve) is not part of server.go; it is   *)
(* modelled from its described contract.                                   *)
(*                                                                         *)
(* SpecFraming feeds the read loop of a Conn with frames of myProtocol;    *)
(* SpecEcho is TestXTCP: myHandler at both ends of one connection.         *)
(***************************************************************************)
EXTENDS Integers, FiniteSets, Sequences, TLC

\* ---------------------------------------------------------------- bounds
\* Raw streams the listener hands out over one run.
MaxConns == 2
\* Goroutines that call Server.Stop.
MaxStoppers == 2
\* Consecutive temporary accept errors, under Spec.
MaxTempErrs == 2
\* Consecutive temporary accept errors, under SpecBackoff.
MaxBackoffErrs == 10

\* Bytes of one message of the test protocol.
MaxMsgLen == 2
\* Packets packed into one stream.
MaxPackets == 2
\* Largest byte value in a message.
MaxMsgByte == 1

\* ------------------------------------------------------ program constants
\* First backoff delay in milliseconds: 5 * time.Millisecond.
BackoffStartMs == 5
\* Largest backoff delay in milliseconds: 1 * time.Second.
BackoffMaxMs == 1000

\* myHandler stops its Conn on this receipt (len(h.recvs) == 10).
StopAfterRecvs == 10

StopImmediately == "StopImmediately"
StopGracefullyButNotWait == "StopGracefullyButNotWait"
StopGracefullyAndWait == "StopGracefullyAndWait"
StopMode == {StopImmediately, StopGracefullyButNotWait, StopGracefullyAndWait}

ConnIds == 1..MaxConns
Stoppers == 1..MaxStoppers

\* A Go map value: nil, or a map holding the set m of keys.
NilMap == [nil |-> TRUE, m |-> {}]
MakeMap == [nil |-> FALSE, m |-> {}]

\* The values of s.mu: unlocked, or locked by Serve, by the t-th caller of
\* Stop, or by the handleRawConn of the c-th stream.
Free == <<"free", 0>>
ServeOwner == <<"Serve", 0>>
StopOwner(t) == <<"Stop", t>>
ConnOwner(c) == <<"handleRawConn", c>>

VARIABLES
    \* ---- Server fields
    stop,        \* s.stop: TRUE once the channel is closed
    wg,          \* s.wg: the WaitGroup counter
    mu,          \* s.mu: Free, or the goroutine that holds it
    lis,         \* s.lis: TRUE when it holds the listener, FALSE when nil
    conns,       \* s.conns
    \* ---- the process and the listener made by net.Listen
    panicked,    \* an unrecovered panic has ended the process
    lstate,      \* "none" (not yet made), "open", "closed"
    lisCloses,   \* calls of Close on the listener
    \* ---- goroutine Serve
    servePc,
    serveLis,    \* the local lis of the deferred function
    tempDelay,   \* in milliseconds
    timerFired,  \* the timer of time.After(tempDelay) has fired
    errReported, \* line 96 logged the accept error
    tempErrs,    \* temporary accept errors since the last successful accept
    backoffCut,  \* the select of line 84 returned on s.stop, the timer not fired
    \* ---- goroutines calling Stop
    stopPc, stopMode,
    stopLis, stopConns,  \* the locals lis and conns
    stopLeft,            \* Conns the range of line 133 has yet to visit
    stopWaited,          \* the call reached s.wg.Wait()
    stopAfterServe,      \* Serve had been started when Stop was called
    \* ---- goroutines handleRawConn, one per accepted raw stream
    hPc,
    rawClosed,      \* the raw stream is closed
    hAdds, hDones,  \* calls of s.wg.Add(1) and s.wg.Done() by this goroutine
    registered,     \* addConn put the Conn into the registry
    removed,        \* removeConn deleted the Conn from the registry
    nilAtAccept,    \* s.conns was nil when the stream was accepted
    rejectedAt,     \* where handleRawConn found the registry nil
    \* ---- Conn objects
    connStopped,    \* the single-execution gate of Conn.Stop is taken
    connMode,       \* the mode that took it
    served,         \* Conn.serve was entered
    srvStops,       \* calls of Conn.Stop by the range of Server.Stop
    srvMode,        \* the mode of the last such call
    \* ---- the read loop of one Conn fed with packed frames (SpecFraming)
    fPackets,       \* the messages P1..Pn that were packed
    fWire,          \* their bytes not yet read from the stream
    fBuf,           \* the accumulation buffer
    fOut,           \* the messages of the packets received so far
    fFailed,        \* Unpack panicked
    \* ---- TestXTCP: the server's Conn and the client's Conn (SpecEcho)
    testPc,         \* "off" (no test runs), "run", "wait", "checked"
    eState,         \* "created", "running", "stopping", "stopped"
    eMode,          \* the mode of the Conn's stop
    eLoops,         \* the loops of the Conn that are running
    eQueue,         \* the outbound queue
    eWire,          \* packets written to the stream and not yet read by the peer
    eEOF,           \* the Conn has closed its stream
    eMade,          \* packets the handler has made
    eSends, eRecvs  \* myHandler.sends and myHandler.recvs

serverVars == <<stop, wg, mu, lis, conns, panicked, lstate, lisCloses>>
serveVars == <<servePc, serveLis, tempDelay, timerFired, errReported, tempErrs,
              backoffCut>>
stopVars == <<stopPc, stopMode, stopLis, stopConns, stopLeft, stopWaited, stopAfterServe>>
handlerVars == <<hPc, rawClosed, hAdds, hDones, registered, removed, nilAtAccept, rejectedAt>>
connVars == <<connStopped, connMode, served, srvStops, srvMode>>
codecVars == <<fPackets, fWire, fBuf, fOut, fFailed>>
echoVars == <<testPc, eState, eMode, eLoops, eQueue, eWire, eEOF, eMade, eSends, eRecvs>>
vars == <<serverVars, serveVars, stopVars, handlerVars, connVars, codecVars, echoVars>>

\* The two ends of the connection of TestXTCP.
Sides == {"server", "client"}
Peer(x) == IF x = "server" THEN "client" ELSE "server"

\* NewServer: stop is an open channel, conns an empty map, the rest zero values.
InitServer ==
    /\ stop = FALSE
    /\ wg = 0
    /\ mu = Free
    /\ lis = FALSE
    /\ conns = MakeMap
    /\ panicked = FALSE
    /\ lstate = "none"
    /\ lisCloses = 0
    /\ servePc = "idle"
    /\ serveLis = FALSE
    /\ tempDelay = 0
    /\ timerFired = FALSE
    /\ errReported = FALSE
    /\ tempErrs = 0
    /\ backoffCut = FALSE
    /\ stopPc = [t \in Stoppers |-> "idle"]
    /\ stopMode = [t \in Stoppers |-> "none"]
    /\ stopLis = [t \in Stoppers |-> FALSE]
    /\ stopConns = [t \in Stoppers |-> NilMap]
    /\ stopLeft = [t \in Stoppers |-> {}]
    /\ stopWaited = [t \in Stoppers |-> FALSE]
    /\ stopAfterServe = [t \in Stoppers |-> FALSE]
    /\ hPc = [c \in ConnIds |-> "none"]
    /\ rawClosed = [c \in ConnIds |-> FALSE]
    /\ hAdds = [c \in ConnIds |-> 0]
    /\ hDones = [c \in ConnIds |-> 0]
    /\ registered = [c \in ConnIds |-> FALSE]
    /\ removed = [c \in ConnIds |-> FALSE]
    /\ nilAtAccept = [c \in ConnIds |-> FALSE]
    /\ rejectedAt = [c \in ConnIds |-> "none"]
    /\ connStopped = [c \in ConnIds |-> FALSE]
    /\ connMode = [c \in ConnIds |-> "none"]
    /\ served = [c \in ConnIds |-> FALSE]
    /\ srvStops = [c \in ConnIds |-> 0]
    /\ srvMode = [c \in ConnIds |-> "none"]

\* No read loop is fed.
InitCodec ==
    /\ fPackets = <<>>
    /\ fWire = <<>>
    /\ fBuf = <<>>
    /\ fOut = <<>>
    /\ fFailed = FALSE

\* NewConn on both ends (lines 313, 319): nothing queued, nothing recorded.
InitEcho(pc) ==
    /\ testPc = pc
    /\ eState = [x \in Sides |-> "created"]
    /\ eMode = [x \in Sides |-> "none"]
    /\ eLoops = [x \in Sides |-> {}]
    /\ eQueue = [x \in Sides |-> <<>>]
    /\ eWire = [x \in Sides |-> <<>>]
    /\ eEOF = [x \in Sides |-> FALSE]
    /\ eMade = [x \in Sides |-> 0]
    /\ eSends = [x \in Sides |-> <<>>]
    /\ eRecvs = [x \in Sides |-> <<>>]

Init ==
    /\ InitServer
    /\ InitCodec
    /\ InitEcho("off")

\* ------------------------------------------------------------ primitives
\* sync.WaitGroup.Done: a counter driven below zero panics.
WgDone_Forgotten ==
    UNCHANGED <<wg, panicked>>

WgDone ==
    IF wg = 0
    THEN panicked' = TRUE /\ wg' = wg
    ELSE wg' = wg - 1 /\ UNCHANGED panicked

\* net.Listener.Close
CloseListener ==
    /\ lstate' = "closed"
    /\ lisCloses' = lisCloses + 1

\* ------------------------------------------------------- Serve (41-105)
\* The delay after one more temporary accept error (lines 75-82), in ms.
NextTempDelay_NoCap(d) ==
    IF d = 0 THEN BackoffStartMs ELSE d * 2

NextTempDelay(d) ==
    LET n == IF d = 0 THEN BackoffStartMs ELSE d * 2
    IN  IF n > BackoffMaxMs THEN BackoffMaxMs ELSE n

\* The select of lines 84-89: the places Serve can go to, given whether the
\* timer of time.After has fired and whether s.stop is closed. Go picks any
\* ready case; `continue` leads to Accept, `return` to the deferred function.
BackoffSelect_StopContinues(fired, closed) ==
    IF fired \/ closed THEN {"accept"} ELSE {}

BackoffSelect(fired, closed) ==
    (IF fired THEN {"accept"} ELSE {}) \cup (IF closed THEN {"deferDone"} ELSE {})

\* The select of lines 92-97: the error is logged unless s.stop is closed.
ReportAcceptError_Always(closed) == TRUE

ReportAcceptError(closed) == ~closed

\* go s.Serve(): the goroutine exists and its defer is registered.
ServeStart ==
    /\ ~panicked
    /\ servePc = "idle"
    /\ servePc' = "add"
    /\ UNCHANGED <<serverVars, serveLis, tempDelay, timerFired, errReported, tempErrs,
                   backoffCut, stopVars, handlerVars, connVars, codecVars, echoVars>>

\* line 55: s.wg.Add(1)
ServeAdd ==
    /\ ~panicked
    /\ servePc = "add"
    /\ wg' = wg + 1
    /\ servePc' = "listen"
    /\ UNCHANGED <<stop, mu, lis, conns, panicked, lstate, lisCloses, serveLis,
                   tempDelay, timerFired, errReported, tempErrs, backoffCut, stopVars,
                   handlerVars, connVars, codecVars, echoVars>>

\* lines 57-65: net.Listen succeeds and l is the listener.
ServeListenOk ==
    /\ ~panicked
    /\ servePc = "listen"
    /\ lstate = "none"
    /\ lstate' = "open"
    /\ servePc' = "store"
    /\ UNCHANGED <<stop, wg, mu, lis, conns, panicked, lisCloses, serveLis, tempDelay,
                   timerFired, errReported, tempErrs, backoffCut, stopVars,
                   handlerVars, connVars, codecVars, echoVars>>

\* lines 57-61: net.Listen fails; Serve logs and returns.
ServeListenErr ==
    /\ ~panicked
    /\ servePc = "listen"
    /\ servePc' = "deferDone"
    /\ UNCHANGED <<serverVars, serveLis, tempDelay, timerFired, errReported, tempErrs,
                   backoffCut, stopVars, handlerVars, connVars, codecVars, echoVars>>

\* lines 65-69: Lock; s.lis = l; Unlock; tempDelay is zero.
ServeStore ==
    /\ ~panicked
    /\ servePc = "store"
    /\ lis' = TRUE
    /\ mu' = Free
    /\ tempDelay' = 0
    /\ servePc' = "accept"
    /\ UNCHANGED <<stop, wg, conns, panicked, lstate, lisCloses, serveLis, timerFired,
                   errReported, tempErrs, backoffCut, stopVars, handlerVars, connVars,
                   codecVars, echoVars>>

\* lines 72, 102-103: Accept returns a raw stream; tempDelay = 0 and
\* go s.handleRawConn(conn). Streams are numbered in the order accepted.
ServeAcceptOk ==
    /\ ~panicked
    /\ servePc = "accept"
    /\ lstate = "open"
    /\ \E c \in ConnIds :
        /\ hPc[c] = "none"
        /\ \A d \in ConnIds : d < c => hPc[d] # "none"
        /\ hPc' = [hPc EXCEPT ![c] = "check"]
        /\ nilAtAccept' = [nilAtAccept EXCEPT ![c] = conns.nil]
    /\ tempDelay' = 0
    /\ tempErrs' = 0
    /\ UNCHANGED <<serverVars, servePc, serveLis, timerFired, errReported, backoffCut,
                   stopVars, rawClosed, hAdds, hDones, registered, removed, rejectedAt,
                   connVars, codecVars, echoVars>>

\* lines 72-83: Accept returns a temporary error; the delay is computed and
\* the timer of time.After(tempDelay) starts. The environment produces at
\* most `limit` such errors in a row.
ServeAcceptTemporary(limit) ==
    /\ ~panicked
    /\ servePc = "accept"
    /\ lstate = "open"
    /\ tempErrs < limit
    /\ tempDelay' = NextTempDelay(tempDelay)
    /\ tempErrs' = tempErrs + 1
    /\ timerFired' = FALSE
    /\ servePc' = "backoff"
    /\ UNCHANGED <<serverVars, serveLis, errReported, backoffCut, stopVars,
                   handlerVars, connVars, codecVars, echoVars>>

\* line 72: Accept on the closed listener returns an error that is not
\* temporary. The locals of the loop are dead from here on.
ServeAcceptClosed ==
    /\ ~panicked
    /\ servePc = "accept"
    /\ lstate = "closed"
    /\ servePc' = "acceptErr"
    /\ tempDelay' = 0
    /\ tempErrs' = 0
    /\ UNCHANGED <<serverVars, serveLis, timerFired, errReported, backoffCut, stopVars,
                   handlerVars, connVars, codecVars, echoVars>>

\* line 72: Accept on the open listener fails for good, for a reason of the
\* listener's own.
ServeAcceptFatal ==
    /\ ~panicked
    /\ servePc = "accept"
    /\ lstate = "open"
    /\ servePc' = "acceptErr"
    /\ tempDelay' = 0
    /\ tempErrs' = 0
    /\ UNCHANGED <<serverVars, serveLis, timerFired, errReported, backoffCut, stopVars,
                   handlerVars, connVars, codecVars, echoVars>>

\* The timer of time.After(tempDelay) fires.
TimerFire ==
    /\ ~panicked
    /\ servePc = "backoff"
    /\ ~timerFired
    /\ timerFired' = TRUE
    /\ UNCHANGED <<serverVars, servePc, serveLis, tempDelay, errReported, tempErrs,
                   backoffCut, stopVars, handlerVars, connVars, codecVars, echoVars>>

\* lines 84-89: select on the timer and on s.stop.
ServeBackoff ==
    /\ ~panicked
    /\ servePc = "backoff"
    /\ \E next \in BackoffSelect(timerFired, stop) :
        /\ servePc' = next
        /\ tempDelay' = IF next = "accept" THEN tempDelay ELSE 0
        /\ tempErrs' = IF next = "accept" THEN tempErrs ELSE 0
        /\ backoffCut' = (next # "accept" /\ ~timerFired)
    /\ timerFired' = FALSE
    /\ UNCHANGED <<serverVars, serveLis, errReported, stopVars, handlerVars, connVars,
                   codecVars, echoVars>>

\* lines 92-99: select on s.stop with a default that logs; return.
ServeAcceptErr ==
    /\ ~panicked
    /\ servePc = "acceptErr"
    /\ errReported' = ReportAcceptError(stop)
    /\ servePc' = "deferDone"
    /\ UNCHANGED <<serverVars, serveLis, tempDelay, timerFired, tempErrs, backoffCut,
                   stopVars, handlerVars, connVars, codecVars, echoVars>>

\* line 43 (deferred): s.wg.Done()
ServeDeferDone ==
    /\ ~panicked
    /\ servePc = "deferDone"
    /\ WgDone
    /\ servePc' = "deferTake"
    /\ UNCHANGED <<stop, mu, lis, conns, lstate, lisCloses, serveLis, tempDelay,
                   timerFired, errReported, tempErrs, backoffCut, stopVars,
                   handlerVars, connVars, codecVars, echoVars>>

\* lines 45-48 (deferred): Lock; lis := s.lis; s.lis = nil; Unlock
ServeDeferTake_NoClear ==
    /\ ~panicked
    /\ servePc = "deferTake"
    /\ serveLis' = lis
    /\ mu' = Free
    /\ servePc' = "deferClose"
    /\ UNCHANGED <<stop, wg, lis, conns, panicked, lstate, lisCloses, tempDelay,
                   timerFired, errReported, tempErrs, backoffCut, stopVars,
                   handlerVars, connVars, codecVars, echoVars>>

ServeDeferTake ==
    /\ ~panicked
    /\ servePc = "deferTake"
    /\ serveLis' = lis
    /\ lis' = FALSE
    /\ mu' = Free
    /\ servePc' = "deferClose"
    /\ UNCHANGED <<stop, wg, conns, panicked, lstate, lisCloses, tempDelay, timerFired,
                   errReported, tempErrs, backoffCut, stopVars, handlerVars, connVars,
                   codecVars, echoVars>>

\* lines 50-52 (deferred): if lis != nil { lis.Close() }; Serve has returned.
ServeDeferClose ==
    /\ ~panicked
    /\ servePc = "deferClose"
    /\ IF serveLis THEN CloseListener ELSE UNCHANGED <<lstate, lisCloses>>
    /\ serveLis' = FALSE
    /\ servePc' = "done"
    /\ UNCHANGED <<stop, wg, mu, lis, conns, panicked, tempDelay, timerFired,
                   errReported, tempErrs, backoffCut, stopVars, handlerVars, connVars,
                   codecVars, echoVars>>

Serve(limit) ==
    \/ ServeStart
    \/ ServeAdd
    \/ ServeListenOk
    \/ ServeListenErr
    \/ ServeStore
    \/ ServeAcceptOk
    \/ ServeAcceptTemporary(limit)
    \/ ServeAcceptClosed
    \/ ServeAcceptFatal
    \/ ServeBackoff
    \/ ServeAcceptErr
    \/ ServeDeferDone
    \/ ServeDeferTake
    \/ ServeDeferClose

\* ------------------------------------------------------------------ Conn
\* Conn.Stop(mode): a single-execution gate; the first caller's mode takes
\* effect, StopImmediately closes the stream at once, and no mode other than
\* StopGracefullyAndWait blocks the caller.
ConnStop(c, mode) ==
    IF connStopped[c]
    THEN UNCHANGED <<connStopped, connMode, rawClosed>>
    ELSE /\ connStopped' = [connStopped EXCEPT ![c] = TRUE]
         /\ connMode' = [connMode EXCEPT ![c] = mode]
         /\ rawClosed' = [rawClosed EXCEPT ![c] = (@ \/ mode = StopImmediately)]

\* A read error, a write error or the peer closing the stream of a Conn that
\* is being served starts its stop sequence, with StopImmediately.
ConnFail(c) ==
    /\ ~panicked
    /\ hPc[c] = "serving"
    /\ ~connStopped[c]
    /\ ConnStop(c, StopImmediately)
    /\ UNCHANGED <<serverVars, serveVars, stopVars, hPc, hAdds, hDones, registered,
                   removed, nilAtAccept, rejectedAt, served, srvStops, srvMode,
                   codecVars, echoVars>>

\* ----------------------------------------- addConn, removeConn (173-190)
\* addConn between Lock and Unlock: the result and the registry it leaves.
addConn_NoNilCheck(cs, c) ==
    [ok |-> TRUE, conns |-> [nil |-> FALSE, m |-> cs.m \cup {c}]]

addConn(cs, c) ==
    IF cs.nil
    THEN [ok |-> FALSE, conns |-> cs]
    ELSE [ok |-> TRUE, conns |-> [cs EXCEPT !.m = @ \cup {c}]]

\* removeConn between Lock and Unlock: the registry it leaves.
removeConn_NoDelete(cs, c) == cs

removeConn(cs, c) ==
    IF ~cs.nil THEN [cs EXCEPT !.m = @ \ {c}] ELSE cs

\* ------------------------------------------------ handleRawConn (144-171)
\* The test of line 146: s.conns == nil
RegistryIsNil_Never(cs) == FALSE

RegistryIsNil(cs) == cs.nil

\* lines 145-149: Lock; s.conns == nil; Unlock; conn.Close(); return
HandleCheckNil(c) ==
    /\ ~panicked
    /\ hPc[c] = "check"
    /\ RegistryIsNil(conns)
    /\ rejectedAt' = [rejectedAt EXCEPT ![c] = "check"]
    /\ mu' = Free
    /\ rawClosed' = [rawClosed EXCEPT ![c] = TRUE]
    /\ hPc' = [hPc EXCEPT ![c] = "done"]
    /\ UNCHANGED <<stop, wg, lis, conns, panicked, lstate, lisCloses, serveVars,
                   stopVars, hAdds, hDones, registered, removed, nilAtAccept, connVars,
                   codecVars, echoVars>>

\* lines 145-157: Lock; s.conns != nil; Unlock; NewConn succeeds;
\* tcpConn.RawConn = conn
HandleNewConnOk(c) ==
    /\ ~panicked
    /\ hPc[c] = "check"
    /\ ~RegistryIsNil(conns)
    /\ mu' = Free
    /\ hPc' = [hPc EXCEPT ![c] = "add"]
    /\ UNCHANGED <<stop, wg, lis, conns, panicked, lstate, lisCloses, serveVars,
                   stopVars, rawClosed, hAdds, hDones, registered, removed,
                   nilAtAccept, rejectedAt, connVars, codecVars, echoVars>>

\* lines 145-156: Lock; s.conns != nil; Unlock; NewConn fails; return
HandleNewConnErr(c) ==
    /\ ~panicked
    /\ hPc[c] = "check"
    /\ ~RegistryIsNil(conns)
    /\ mu' = Free
    /\ hPc' = [hPc EXCEPT ![c] = "done"]
    /\ UNCHANGED <<stop, wg, lis, conns, panicked, lstate, lisCloses, serveVars,
                   stopVars, rawClosed, hAdds, hDones, registered, removed,
                   nilAtAccept, rejectedAt, connVars, codecVars, echoVars>>

\* lines 159, 164-167: addConn returns true; the defer is registered.
HandleAddOk(c) ==
    /\ ~panicked
    /\ hPc[c] = "add"
    /\ addConn(conns, c).ok
    /\ conns' = addConn(conns, c).conns
    /\ mu' = Free
    /\ registered' = [registered EXCEPT ![c] = TRUE]
    /\ hPc' = [hPc EXCEPT ![c] = "wgAdd"]
    /\ UNCHANGED <<stop, wg, lis, panicked, lstate, lisCloses, serveVars, stopVars,
                   rawClosed, hAdds, hDones, removed, nilAtAccept, rejectedAt,
                   connVars, codecVars, echoVars>>

\* lines 159-161: addConn returns false; tcpConn.Stop(StopImmediately); return
HandleAddRejected(c) ==
    /\ ~panicked
    /\ hPc[c] = "add"
    /\ ~addConn(conns, c).ok
    /\ conns' = addConn(conns, c).conns
    /\ rejectedAt' = [rejectedAt EXCEPT ![c] = "addConn"]
    /\ mu' = Free
    /\ ConnStop(c, StopImmediately)
    /\ hPc' = [hPc EXCEPT ![c] = "done"]
    /\ UNCHANGED <<stop, wg, lis, panicked, lstate, lisCloses, serveVars, stopVars,
                   hAdds, hDones, registered, removed, nilAtAccept, served, srvStops,
                   srvMode, codecVars, echoVars>>

\* lines 169-170: s.wg.Add(1); tcpConn.serve() is entered.
HandleWgAdd(c) ==
    /\ ~panicked
    /\ hPc[c] = "wgAdd"
    /\ wg' = wg + 1
    /\ hAdds' = [hAdds EXCEPT ![c] = @ + 1]
    /\ served' = [served EXCEPT ![c] = TRUE]
    /\ hPc' = [hPc EXCEPT ![c] = "serving"]
    /\ UNCHANGED <<stop, mu, lis, conns, panicked, lstate, lisCloses, serveVars,
                   stopVars, rawClosed, hDones, registered, removed, nilAtAccept,
                   rejectedAt, connStopped, connMode, srvStops, srvMode, codecVars,
                   echoVars>>

\* line 170: tcpConn.serve() returns, which it does once the Conn has fully
\* stopped and its stream is closed.
HandleServeReturn(c) ==
    /\ ~panicked
    /\ hPc[c] = "serving"
    /\ connStopped[c]
    /\ rawClosed' = [rawClosed EXCEPT ![c] = TRUE]
    /\ hPc' = [hPc EXCEPT ![c] = "remove"]
    /\ UNCHANGED <<serverVars, serveVars, stopVars, hAdds, hDones, registered, removed,
                   nilAtAccept, rejectedAt, connVars, codecVars, echoVars>>

\* line 165 (deferred): s.removeConn(tcpConn)
HandleRemove(c) ==
    /\ ~panicked
    /\ hPc[c] = "remove"
    /\ conns' = removeConn(conns, c)
    /\ mu' = Free
    /\ removed' = [removed EXCEPT ![c] = ~conns.nil]
    /\ hPc' = [hPc EXCEPT ![c] = "wgDone"]
    /\ UNCHANGED <<stop, wg, lis, panicked, lstate, lisCloses, serveVars, stopVars,
                   rawClosed, hAdds, hDones, registered, nilAtAccept, rejectedAt,
                   connVars, codecVars, echoVars>>

\* line 166 (deferred): s.wg.Done(); handleRawConn has returned.
HandleWgDone(c) ==
    /\ ~panicked
    /\ hPc[c] = "wgDone"
    /\ WgDone
    /\ hDones' = [hDones EXCEPT ![c] = @ + 1]
    /\ hPc' = [hPc EXCEPT ![c] = "done"]
    /\ UNCHANGED <<stop, mu, lis, conns, lstate, lisCloses, serveVars, stopVars,
                   rawClosed, hAdds, registered, removed, nilAtAccept, rejectedAt,
                   connVars, codecVars, echoVars>>

handleRawConn(c) ==
    \/ HandleCheckNil(c)
    \/ HandleNewConnOk(c)
    \/ HandleNewConnErr(c)
    \/ HandleAddOk(c)
    \/ HandleAddRejected(c)
    \/ HandleWgAdd(c)
    \/ HandleServeReturn(c)
    \/ HandleRemove(c)
    \/ HandleWgDone(c)

\* --------------------------------------------------------- Stop (111-142)
\* lines 128-132: the mode handed to every Conn of the registry.
FanoutMode_NoDowngrade(mode) == mode

FanoutMode(mode) ==
    IF mode = StopGracefullyAndWait THEN StopGracefullyButNotWait ELSE mode

\* line 133: the Conns that `for c := range conns` visits; none for a nil map.
FanoutTargets_Registry(cs) == IF conns.nil THEN {} ELSE conns.m

FanoutTargets(cs) == IF cs.nil THEN {} ELSE cs.m

\* line 137: whether Stop goes on to s.wg.Wait()
StopWaits(mode) == mode = StopGracefullyAndWait

\* s.Stop(mode) is called and runs line 112, close(s.stop), on the open
\* channel. Callers are numbered in the order they call.
StopClose(t) ==
    /\ ~panicked
    /\ stopPc[t] = "idle"
    /\ \A u \in Stoppers : u < t => stopPc[u] # "idle"
    /\ ~stop
    /\ stop' = TRUE
    /\ \E mode \in StopMode : stopMode' = [stopMode EXCEPT ![t] = mode]
    /\ stopAfterServe' = [stopAfterServe EXCEPT ![t] = (servePc # "idle")]
    /\ stopPc' = [stopPc EXCEPT ![t] = "take"]
    /\ UNCHANGED <<wg, mu, lis, conns, panicked, lstate, lisCloses, serveVars, stopLis,
                   stopConns, stopLeft, stopWaited, handlerVars, connVars, codecVars,
                   echoVars>>

\* s.Stop(mode) is called and runs line 112, close(s.stop), on the closed
\* channel: close panics, whatever the mode.
StopCloseClosed(t) ==
    /\ ~panicked
    /\ stopPc[t] = "idle"
    /\ \A u \in Stoppers : u < t => stopPc[u] # "idle"
    /\ stop
    /\ panicked' = TRUE
    /\ stopPc' = [stopPc EXCEPT ![t] = "panic"]
    /\ UNCHANGED <<stop, wg, mu, lis, conns, lstate, lisCloses, serveVars, stopMode,
                   stopLis, stopConns, stopLeft, stopWaited, stopAfterServe,
                   handlerVars, connVars, codecVars, echoVars>>

\* lines 114-122: Lock; lis := s.lis; s.lis = nil; conns := s.conns;
\* s.conns = nil; Unlock
StopTake(t) ==
    /\ ~panicked
    /\ stopPc[t] = "take"
    /\ stopLis' = [stopLis EXCEPT ![t] = lis]
    /\ lis' = FALSE
    /\ stopConns' = [stopConns EXCEPT ![t] = conns]
    /\ conns' = NilMap
    /\ mu' = Free
    /\ stopPc' = [stopPc EXCEPT ![t] = "closeLis"]
    /\ UNCHANGED <<stop, wg, panicked, lstate, lisCloses, serveVars, stopMode,
                   stopLeft, stopWaited, stopAfterServe, handlerVars, connVars,
                   codecVars, echoVars>>

\* lines 124-133: if lis != nil { lis.Close() }; the range over conns begins.
StopCloseLis(t) ==
    /\ ~panicked
    /\ stopPc[t] = "closeLis"
    /\ IF stopLis[t] THEN CloseListener ELSE UNCHANGED <<lstate, lisCloses>>
    /\ stopLeft' = [stopLeft EXCEPT ![t] = FanoutTargets(stopConns[t])]
    /\ stopPc' = [stopPc EXCEPT ![t] = "fanout"]
    /\ UNCHANGED <<stop, wg, mu, lis, conns, panicked, serveVars, stopMode, stopLis,
                   stopConns, stopWaited, stopAfterServe, handlerVars, connVars,
                   codecVars, echoVars>>

\* lines 133-135: one iteration, c.Stop(m)
StopFanout(t) ==
    /\ ~panicked
    /\ stopPc[t] = "fanout"
    /\ \E c \in stopLeft[t] :
        /\ ConnStop(c, FanoutMode(stopMode[t]))
        /\ srvStops' = [srvStops EXCEPT ![c] = @ + 1]
        /\ srvMode' = [srvMode EXCEPT ![c] = FanoutMode(stopMode[t])]
        /\ stopLeft' = [stopLeft EXCEPT ![t] = @ \ {c}]
    /\ UNCHANGED <<serverVars, serveVars, stopPc, stopMode, stopLis, stopConns,
                   stopWaited, stopAfterServe, hPc, hAdds, hDones, registered, removed,
                   nilAtAccept, rejectedAt, served, codecVars, echoVars>>

\* lines 137-141: the range is over; mode is not StopGracefullyAndWait and
\* Stop returns.
StopReturn(t) ==
    /\ ~panicked
    /\ stopPc[t] = "fanout"
    /\ stopLeft[t] = {}
    /\ ~StopWaits(stopMode[t])
    /\ stopPc' = [stopPc EXCEPT ![t] = "done"]
    /\ UNCHANGED <<serverVars, serveVars, stopMode, stopLis, stopConns, stopLeft,
                   stopWaited, stopAfterServe, handlerVars, connVars, codecVars,
                   echoVars>>

\* lines 137-138: the range is over; mode is StopGracefullyAndWait and Stop
\* calls s.wg.Wait().
StopWaitBegin(t) ==
    /\ ~panicked
    /\ stopPc[t] = "fanout"
    /\ stopLeft[t] = {}
    /\ StopWaits(stopMode[t])
    /\ stopWaited' = [stopWaited EXCEPT ![t] = TRUE]
    /\ stopPc' = [stopPc EXCEPT ![t] = "wait"]
    /\ UNCHANGED <<serverVars, serveVars, stopMode, stopLis, stopConns, stopLeft,
                   stopAfterServe, handlerVars, connVars, codecVars, echoVars>>

\* lines 138-141: s.wg.Wait() returns when the counter is zero; Stop returns.
StopWait(t) ==
    /\ ~panicked
    /\ stopPc[t] = "wait"
    /\ wg = 0
    /\ stopPc' = [stopPc EXCEPT ![t] = "done"]
    /\ UNCHANGED <<serverVars, serveVars, stopMode, stopLis, stopConns, stopLeft,
                   stopWaited, stopAfterServe, handlerVars, connVars, codecVars,
                   echoVars>>

\* The steps of Stop that need no Conn in the registry.
StopNoConns(t) ==
    \/ StopClose(t)
    \/ StopCloseClosed(t)
    \/ StopTake(t)
    \/ StopCloseLis(t)
    \/ StopReturn(t)
    \/ StopWaitBegin(t)
    \/ StopWait(t)

Stop(t) ==
    \/ StopNoConns(t)
    \/ StopFanout(t)

\* ------------------------------------------------------- specifications
\* The server with everything running.
Next ==
    \/ Serve(MaxTempErrs)
    \/ TimerFire
    \/ \E t \in Stoppers : Stop(t)
    \/ \E c \in ConnIds : handleRawConn(c)
    \/ \E c \in ConnIds : ConnFail(c)

Spec == Init /\ [][Next]_vars

\* The accept loop and Stop alone, with long runs of temporary errors. The
\* goroutines that Serve starts are left unscheduled: handleRawConn writes no
\* variable the accept loop reads.
NextBackoff ==
    \/ Serve(MaxBackoffErrs)
    \/ TimerFire
    \/ \E t \in Stoppers : StopNoConns(t)

SpecBackoff == Init /\ [][NextBackoff]_vars


\* ------------------------------------------- s.mu as steps of its own
\* s.mu.Lock() called by goroutine o returns: the mutex was unlocked.
MuLock(o) ==
    /\ ~panicked
    /\ mu = Free
    /\ mu' = o
    /\ UNCHANGED <<stop, wg, lis, conns, panicked, lstate, lisCloses, serveVars,
                   stopVars, handlerVars, connVars, codecVars, echoVars>>

\* What a Lock..Unlock stretch of goroutine o needs before it runs.
Locked_NoLock(o) == TRUE

Locked(o) == mu = o

\* lines 65, 45: s.mu.Lock() in Serve and in its deferred function
ServeLock ==
    /\ servePc \in {"store", "deferTake"}
    /\ MuLock(ServeOwner)

\* line 114: s.mu.Lock() in Stop
StopLock(t) ==
    /\ stopPc[t] = "take"
    /\ MuLock(StopOwner(t))

\* lines 145, 174, 185: s.mu.Lock() in handleRawConn, addConn, removeConn
HandleLock(c) ==
    /\ hPc[c] \in {"check", "add", "remove"}
    /\ MuLock(ConnOwner(c))

\* lines 145-147: Lock; s.conns == nil; Unlock
HandleCheckNilUnlock(c) ==
    /\ ~panicked
    /\ hPc[c] = "check"
    /\ RegistryIsNil(conns)
    /\ rejectedAt' = [rejectedAt EXCEPT ![c] = "check"]
    /\ mu' = Free
    /\ hPc' = [hPc EXCEPT ![c] = "closeRaw"]
    /\ UNCHANGED <<stop, wg, lis, conns, panicked, lstate, lisCloses, serveVars,
                   stopVars, rawClosed, hAdds, hDones, registered, removed,
                   nilAtAccept, connVars, codecVars, echoVars>>

\* lines 148-149: conn.Close(); return
HandleCloseRaw(c) ==
    /\ ~panicked
    /\ hPc[c] = "closeRaw"
    /\ rawClosed' = [rawClosed EXCEPT ![c] = TRUE]
    /\ hPc' = [hPc EXCEPT ![c] = "done"]
    /\ UNCHANGED <<serverVars, serveVars, stopVars, hAdds, hDones, registered, removed,
                   nilAtAccept, rejectedAt, connVars, codecVars, echoVars>>

\* line 159: addConn returns false (its Lock..Unlock stretch, lines 174-177)
HandleAddRejectedUnlock(c) ==
    /\ ~panicked
    /\ hPc[c] = "add"
    /\ ~addConn(conns, c).ok
    /\ conns' = addConn(conns, c).conns
    /\ rejectedAt' = [rejectedAt EXCEPT ![c] = "addConn"]
    /\ mu' = Free
    /\ hPc' = [hPc EXCEPT ![c] = "rejectStop"]
    /\ UNCHANGED <<stop, wg, lis, panicked, lstate, lisCloses, serveVars, stopVars,
                   rawClosed, hAdds, hDones, registered, removed, nilAtAccept,
                   connVars, codecVars, echoVars>>

\* lines 160-161: tcpConn.Stop(StopImmediately); return
HandleRejectStop(c) ==
    /\ ~panicked
    /\ hPc[c] = "rejectStop"
    /\ ConnStop(c, StopImmediately)
    /\ hPc' = [hPc EXCEPT ![c] = "done"]
    /\ UNCHANGED <<serverVars, serveVars, stopVars, hAdds, hDones, registered, removed,
                   nilAtAccept, rejectedAt, served, srvStops, srvMode, codecVars,
                   echoVars>>

\* Serve, its Lock..Unlock stretches run only with s.mu locked by Serve.
ServeMu(limit) ==
    \/ ServeLock
    \/ /\ servePc \in {"store", "deferTake"} => Locked(ServeOwner)
       /\ Serve(limit)

\* Stop likewise.
StopMu(t) ==
    \/ StopLock(t)
    \/ /\ stopPc[t] = "take" => Locked(StopOwner(t))
       /\ Stop(t)

\* handleRawConn likewise, and with the calls after an Unlock as steps.
handleRawConnMu(c) ==
    \/ HandleLock(c)
    \/ /\ hPc[c] \in {"check", "add", "remove"} => Locked(ConnOwner(c))
       /\ \/ HandleCheckNilUnlock(c)
          \/ HandleCloseRaw(c)
          \/ HandleNewConnOk(c)
          \/ HandleNewConnErr(c)
          \/ HandleAddOk(c)
          \/ HandleAddRejectedUnlock(c)
          \/ HandleRejectStop(c)
          \/ HandleWgAdd(c)
          \/ HandleServeReturn(c)
          \/ HandleRemove(c)
          \/ HandleWgDone(c)

\* The server with everything running and s.mu.Lock() as a step.
NextMu ==
    \/ ServeMu(MaxTempErrs)
    \/ TimerFire
    \/ \E t \in Stoppers : StopMu(t)
    \/ \E c \in ConnIds : handleRawConnMu(c)
    \/ \E c \in ConnIds : ConnFail(c)

SpecMu == Init /\ [][NextMu]_vars

\* ------------------------------------------------- myProtocol (226-270)
\* A byte slice is a sequence of numbers in 0..255; a myPacket is its msg.
\* binary.BigEndian: the four bytes of a uint32, and back. The conversion
\* uint32(n) keeps n modulo 2^32, which is n itself for every n that TLC can
\* hold (below 2^31).
PutUint32(n) ==
    <<(n \div 16777216) % 256, (n \div 65536) % 256, (n \div 256) % 256, n % 256>>

Uint32(b) == b[1] * 16777216 + b[2] * 65536 + b[3] * 256 + b[4]

\* lines 232-234
PackSize_NoHeader(msg) == Len(msg)

PackSize(msg) == 4 + Len(msg)

\* lines 235-250: the bytes written to w, and the count wl that is returned,
\* to which only the write of the message adds.
PackTo(msg) ==
    [bytes |-> PutUint32(PackSize(msg)) \o msg, wl |-> Len(msg)]

\* lines 251-259
Pack(msg) == PackTo(msg).bytes

\* lines 260-270. The slice expression buf[4:msgLen] panics when msgLen < 4.
NoPacket == [some |-> FALSE, msg |-> <<>>]

Unpack(buf) ==
    IF Len(buf) < 4
    THEN [p |-> NoPacket, n |-> 0, err |-> FALSE, panic |-> FALSE]
    ELSE LET msgLen == Uint32(SubSeq(buf, 1, 4))
         IN  IF Len(buf) < msgLen
             THEN [p |-> NoPacket, n |-> 0, err |-> FALSE, panic |-> FALSE]
             ELSE IF msgLen < 4
             THEN [p |-> NoPacket, n |-> 0, err |-> FALSE, panic |-> TRUE]
             ELSE [p |-> [some |-> TRUE, msg |-> SubSeq(buf, 5, msgLen)],
                   n |-> msgLen, err |-> FALSE, panic |-> FALSE]

\* ------------------------------------------- the read loop of a Conn
\* The inner loop: Unpack against the buffer; on a packet, hand it to the
\* handler, drop the consumed bytes and try again; stop on "not enough data".
RECURSIVE UnpackRetry(_, _)
UnpackRetry(buf, out) ==
    LET r == Unpack(buf)
    IN  IF r.panic \/ r.err \/ ~r.p.some
        THEN [buf |-> buf, out |-> out, failed |-> r.panic \/ r.err]
        ELSE UnpackRetry(SubSeq(buf, r.n + 1, Len(buf)), Append(out, r.p.msg))

\* One turn of the outer loop: read a chunk of k bytes from the stream into
\* the accumulation buffer, then run the inner loop.
ReadChunk ==
    /\ ~fFailed
    /\ \E k \in 1..Len(fWire) :
        LET r == UnpackRetry(fBuf \o SubSeq(fWire, 1, k), fOut)
        IN  /\ fBuf' = r.buf
            /\ fOut' = r.out
            /\ fFailed' = r.failed
            /\ fWire' = SubSeq(fWire, k + 1, Len(fWire))
    /\ UNCHANGED <<serverVars, serveVars, stopVars, handlerVars, connVars, fPackets,
                   echoVars>>

\* The messages and the packet sequences that are tried.
Messages == UNION {[1..n -> 0..MaxMsgByte] : n \in 0..MaxMsgLen}
PacketSeqs == UNION {[1..n -> Messages] : n \in 0..MaxPackets}

\* The frames of the packets ps, one after the other.
RECURSIVE Frames(_)
Frames(ps) == IF ps = <<>> THEN <<>> ELSE Pack(Head(ps)) \o Frames(Tail(ps))

\* A Conn whose stream holds the frames of some packets P1..Pn.
InitFraming ==
    /\ InitServer
    /\ InitEcho("off")
    /\ fPackets \in PacketSeqs
    /\ fWire = Frames(fPackets)
    /\ fBuf = <<>>
    /\ fOut = <<>>
    /\ fFailed = FALSE

NextFraming == ReadChunk

SpecFraming == InitFraming /\ [][NextFraming]_vars

\* --------------------------------------------- TestXTCP (lines 272-337)
\* The Conn at each end is a record of its state, stop mode, outbound queue
\* and the count of messages its handler has made. A message is the pair of
\* the handler's name and that count (h.name + time.Now().String()).

\* Conn.Send: enqueue, or fail when the Conn is not running. The queue holds
\* 128 packets, more than one end ever makes here.
EchoSend(cn, x) ==
    IF cn.state = "running"
    THEN [cn EXCEPT !.queue = Append(@, <<x, cn.made + 1>>), !.made = @ + 1]
    ELSE [cn EXCEPT !.made = @ + 1]

\* Conn.Stop: only the first call takes effect.
EchoStop(cn, mode) ==
    IF cn.state = "running"
    THEN [cn EXCEPT !.state = "stopping", !.mode = mode]
    ELSE cn

\* lines 280-285: what myHandler calls on its Conn on EventConnected
OnEventConnected == <<"Send">>

\* lines 286-288: EventSend
OnEventSend(sends, msg) == Append(sends, msg)

\* lines 289-300: what myHandler calls on its Conn on EventRecv, n being
\* len(h.recvs) after the append
OnEventRecv(n) ==
    IF n = StopAfterRecvs THEN <<"Stop">> ELSE <<"Send">>

\* The calls of a handler on its Conn, in order.
RECURSIVE ApplyCalls(_, _, _)
ApplyCalls(cn, calls, x) ==
    IF calls = <<>> THEN cn
    ELSE ApplyCalls(IF Head(calls) = "Send"
                    THEN EchoSend(cn, x)
                    ELSE EchoStop(cn, StopGracefullyButNotWait),
                    Tail(calls), x)

EchoConn(x) ==
    [state |-> eState[x], mode |-> eMode[x], queue |-> eQueue[x], made |-> eMade[x]]

\* Conn.serve is entered: the Conn is running, the connected event is
\* delivered, both loops start. The server's Conn exists once the client
\* has dialed (lines 311-312, 320-321).
EchoServe(x) ==
    /\ testPc # "off"
    /\ eState[x] = "created"
    /\ x = "server" => eState["client"] # "created"
    /\ LET cn == ApplyCalls([EchoConn(x) EXCEPT !.state = "running"], OnEventConnected, x)
       IN  /\ eState' = [eState EXCEPT ![x] = cn.state]
           /\ eMode' = [eMode EXCEPT ![x] = cn.mode]
           /\ eQueue' = [eQueue EXCEPT ![x] = cn.queue]
           /\ eMade' = [eMade EXCEPT ![x] = cn.made]
    /\ eLoops' = [eLoops EXCEPT ![x] = {"read", "write"}]
    /\ UNCHANGED <<serverVars, serveVars, stopVars, handlerVars, connVars, codecVars,
                   testPc, eWire, eEOF, eSends, eRecvs>>

\* Write loop: take a queued packet, write it to the stream, deliver the
\* sent event. After a graceful stop the queue is still drained.
EchoWrite(x) ==
    /\ testPc # "off"
    /\ "write" \in eLoops[x]
    /\ eQueue[x] # <<>>
    /\ eState[x] = "stopping" => eMode[x] # StopImmediately
    /\ eWire' = [eWire EXCEPT ![x] = Append(@, Head(eQueue[x]))]
    /\ eQueue' = [eQueue EXCEPT ![x] = Tail(@)]
    /\ eSends' = [eSends EXCEPT ![x] = OnEventSend(@, Head(eQueue[x]))]
    /\ UNCHANGED <<serverVars, serveVars, stopVars, handlerVars, connVars, codecVars,
                   testPc, eState, eMode, eLoops, eEOF, eMade, eRecvs>>

\* Write loop: after the stop signal, with nothing left to drain (or without
\* draining when the stop is immediate), close the stream and exit.
EchoWriteExit(x) ==
    /\ testPc # "off"
    /\ "write" \in eLoops[x]
    /\ eState[x] = "stopping"
    /\ eMode[x] # StopImmediately => eQueue[x] = <<>>
    /\ eQueue' = [eQueue EXCEPT ![x] = <<>>]
    /\ eEOF' = [eEOF EXCEPT ![x] = TRUE]
    /\ eLoops' = [eLoops EXCEPT ![x] = @ \ {"write"}]
    /\ UNCHANGED <<serverVars, serveVars, stopVars, handlerVars, connVars, codecVars,
                   testPc, eState, eMode, eWire, eMade, eSends, eRecvs>>

\* Read loop: read and decode the next packet of the peer, deliver the
\* received event; the handler records it and replies or stops.
EchoRead(x) ==
    /\ testPc # "off"
    /\ "read" \in eLoops[x]
    /\ eState[x] = "running"
    /\ eWire[Peer(x)] # <<>>
    /\ eWire' = [eWire EXCEPT ![Peer(x)] = Tail(@)]
    /\ eRecvs' = [eRecvs EXCEPT ![x] = Append(@, Head(eWire[Peer(x)]))]
    /\ LET cn == ApplyCalls(EchoConn(x), OnEventRecv(Len(eRecvs[x]) + 1), x)
       IN  /\ eState' = [eState EXCEPT ![x] = cn.state]
           /\ eMode' = [eMode EXCEPT ![x] = cn.mode]
           /\ eQueue' = [eQueue EXCEPT ![x] = cn.queue]
           /\ eMade' = [eMade EXCEPT ![x] = cn.made]
    /\ UNCHANGED <<serverVars, serveVars, stopVars, handlerVars, connVars, codecVars,
                   testPc, eLoops, eEOF, eSends>>

\* The read of a running Conn returns EOF: the peer has closed its stream
\* and everything it wrote has been read.
ReadsEOF(x) ==
    /\ eState[x] = "running"
    /\ eWire[Peer(x)] = <<>>
    /\ eEOF[Peer(x)]

\* Read loop: exit on the stop signal, or on EOF, which starts the stop of
\* the Conn with immediate semantics (the stream is closed at once).
EchoReadExit(x) ==
    /\ testPc # "off"
    /\ "read" \in eLoops[x]
    /\ IF eState[x] = "stopping" THEN TRUE ELSE ReadsEOF(x)
    /\ eState' = [eState EXCEPT ![x] = "stopping"]
    /\ eMode' = [eMode EXCEPT ![x] = IF eState[x] = "stopping" THEN @ ELSE StopImmediately]
    /\ eEOF' = [eEOF EXCEPT ![x] = IF eState[x] = "stopping" THEN @ ELSE TRUE]
    /\ eLoops' = [eLoops EXCEPT ![x] = @ \ {"read"}]
    /\ UNCHANGED <<serverVars, serveVars, stopVars, handlerVars, connVars, codecVars,
                   testPc, eQueue, eWire, eMade, eSends, eRecvs>>

\* Both loops have returned: the Conn is stopped, the closed event is
\* delivered (myHandler does nothing on it), serve returns.
EchoClosed(x) ==
    /\ testPc # "off"
    /\ eState[x] = "stopping"
    /\ eLoops[x] = {}
    /\ eState' = [eState EXCEPT ![x] = "stopped"]
    /\ UNCHANGED <<serverVars, serveVars, stopVars, handlerVars, connVars, codecVars,
                   testPc, eMode, eLoops, eQueue, eWire, eEOF, eMade, eSends, eRecvs>>

\* lines 328-329: <-clientClosed, then server.Stop(StopGracefullyAndWait),
\* which hands StopGracefullyButNotWait to the server's Conn (lines 128-135).
TestStop ==
    /\ testPc = "run"
    /\ eState["client"] = "stopped"
    /\ LET cn == EchoStop(EchoConn("server"), FanoutMode(StopGracefullyAndWait))
       IN  /\ eState' = [eState EXCEPT !["server"] = cn.state]
           /\ eMode' = [eMode EXCEPT !["server"] = cn.mode]
    /\ testPc' = "wait"
    /\ UNCHANGED <<serverVars, serveVars, stopVars, handlerVars, connVars, codecVars,
                   eLoops, eQueue, eWire, eEOF, eMade, eSends, eRecvs>>

\* lines 137-139, 331-336: s.wg.Wait() returns once the handleRawConn of the
\* server's Conn has returned; Stop returns and the test compares.
TestStopReturn ==
    /\ testPc = "wait"
    /\ eState["server"] = "stopped"
    /\ testPc' = "checked"
    /\ UNCHANGED <<serverVars, serveVars, stopVars, handlerVars, connVars, codecVars,
                   eState, eMode, eLoops, eQueue, eWire, eEOF, eMade, eSends, eRecvs>>

InitTest ==
    /\ InitServer
    /\ InitCodec
    /\ InitEcho("run")

NextEcho ==
    \/ \E x \in Sides :
        \/ EchoServe(x)
        \/ EchoWrite(x)
        \/ EchoWriteExit(x)
        \/ EchoRead(x)
        \/ EchoReadExit(x)
        \/ EchoClosed(x)
    \/ TestStop
    \/ TestStopReturn

SpecEcho == InitTest /\ [][NextEcho]_vars
\* What the Go scheduler and the network guarantee: a goroutine that can take
\* a step of its own code takes it, Accept on a closed listener returns, and
\* a timer fires. That Serve or Stop is called at all, that a peer connects,
\* that Accept or a stream fails, is up to the environment.
ServeProgress ==
    \/ ServeAdd
    \/ ServeListenOk
    \/ ServeListenErr
    \/ ServeStore
    \/ ServeAcceptClosed
    \/ ServeBackoff
    \/ ServeAcceptErr
    \/ ServeDeferDone
    \/ ServeDeferTake
    \/ ServeDeferClose

StopProgress(t) ==
    \/ StopTake(t)
    \/ StopCloseLis(t)
    \/ StopFanout(t)
    \/ StopReturn(t)
    \/ StopWaitBegin(t)
    \/ StopWait(t)

Fairness ==
    /\ WF_vars(ServeProgress)
    /\ WF_vars(TimerFire)
    /\ \A t \in Stoppers : WF_vars(StopProgress(t))
    /\ \A c \in ConnIds : WF_vars(handleRawConn(c))

FairSpec == Init /\ [][Next]_vars /\ Fairness

\* ================================================================ claims
Finished(c) == hPc[c] \in {"none", "done"}

\* C1: when Stop(StopGracefullyAndWait), called after Serve was started, has
\* returned, Serve has returned and every handleRawConn has finished.
C1_QuiescentAfterStopWait ==
    \A t \in Stoppers :
        (stopPc[t] = "done" /\ stopMode[t] = StopGracefullyAndWait /\ stopAfterServe[t])
            => (servePc = "done" /\ \A c \in ConnIds : Finished(c))

\* C2: once Stop has set s.conns to nil it stays nil, no Conn is added to it,
\* and every addConn that runs from then on returns false.
C2_RegistryStaysNil ==
    [][conns.nil =>
        /\ conns'.nil
        /\ conns'.m = {}
        /\ registered' = registered
        /\ \A c \in ConnIds :
            (hPc[c] = "add" /\ hPc'[c] # "add")
                => (hPc'[c] = "done" /\ rejectedAt'[c] = "addConn")]_vars

C2_Witness ==
    /\ conns.nil
    /\ \E c \in ConnIds : rejectedAt[c] = "addConn" /\ ~registered[c]

\* C3: a second call of Stop completes without failure: no call of Stop
\* panics.
C3_SecondStopCompletes ==
    \A t \in Stoppers : stopPc[t] # "panic"

\* C4: once Stop has been called on a server whose Serve was started, Serve
\* eventually returns (unless the process has died).
C4_AcceptLoopExits ==
    (\E t \in Stoppers : stopPc[t] # "idle" /\ stopAfterServe[t])
        ~> (servePc = "done" \/ panicked)

\* C5: in every state after Stop, called after Serve was started, has
\* returned, s.lis is nil and the listener Serve made is not open.
C5_ListenerNilAfterStop ==
    \A t \in Stoppers :
        (stopPc[t] = "done" /\ stopAfterServe[t]) => (~lis /\ lstate # "open")

\* C6: a stream accepted when s.conns is nil is turned away at the first
\* check of handleRawConn; a stream turned away there or by addConn is never
\* in the registry, never served, never counted in s.wg, and is closed when
\* handleRawConn returns.
C6_LateStreamRejected ==
    \A c \in ConnIds :
        /\ nilAtAccept[c] => hPc[c] \in {"check", "done"}
        /\ (nilAtAccept[c] /\ hPc[c] = "done") => rejectedAt[c] = "check"
        /\ rejectedAt[c] # "none" =>
            /\ hPc[c] = "done"
            /\ rawClosed[c]
            /\ ~registered[c]
            /\ c \notin conns.m
            /\ \A t \in Stoppers : c \notin stopConns[t].m
            /\ ~served[c]
            /\ hAdds[c] = 0 /\ hDones[c] = 0

C6_Witness ==
    \E c, d \in ConnIds :
        /\ rejectedAt[c] = "addConn" /\ rawClosed[c]
        /\ nilAtAccept[d] /\ rejectedAt[d] = "check" /\ rawClosed[d]

\* C7: the range of Stop calls Conn.Stop exactly once on every Conn that was
\* in the registry when Stop cleared it, and never on a Conn that removeConn
\* had deleted.
C7_StoppedExactlyOnce ==
    /\ \A c \in ConnIds :
        /\ srvStops[c] <= 1
        /\ srvStops[c] = 1 => \E t \in Stoppers : c \in stopConns[t].m
        /\ removed[c] => srvStops[c] = 0
        /\ (registered[c] /\ ~removed[c] /\ conns.nil)
            => \E t \in Stoppers : c \in stopConns[t].m
    /\ \A t \in Stoppers :
        stopPc[t] \in {"wait", "done"} => \A c \in stopConns[t].m : srvStops[c] = 1

C7_Witness ==
    \E t \in Stoppers : \E c, d \in ConnIds :
        /\ stopPc[t] = "done"
        /\ c \in stopConns[t].m /\ srvStops[c] = 1
        /\ removed[d] /\ srvStops[d] = 0

\* C8: the range of Stop hands StopGracefullyButNotWait to every Conn when
\* the mode of Stop is StopGracefullyAndWait and the mode of Stop itself
\* otherwise; Stop calls s.wg.Wait() exactly when its mode is
\* StopGracefullyAndWait.
C8_FanoutDowngrade ==
    /\ \A c \in ConnIds :
        srvStops[c] > 0 =>
            \E t \in Stoppers :
                /\ c \in stopConns[t].m
                /\ stopMode[t] = StopGracefullyAndWait
                    => srvMode[c] = StopGracefullyButNotWait
                /\ stopMode[t] # StopGracefullyAndWait
                    => srvMode[c] = stopMode[t]
    /\ \A t \in Stoppers :
        /\ stopWaited[t] => stopMode[t] = StopGracefullyAndWait
        /\ stopPc[t] = "done" => (stopWaited[t] <=> stopMode[t] = StopGracefullyAndWait)

C8_Witness ==
    \E t \in Stoppers : \E c \in ConnIds :
        /\ stopPc[t] = "done"
        /\ stopMode[t] = StopGracefullyAndWait
        /\ stopWaited[t]
        /\ srvMode[c] = StopGracefullyButNotWait

\* C9: the k-th temporary accept error in a row waits min(5 * 2^(k-1), 1000)
\* milliseconds, and a successful accept puts the delay back to zero, so that
\* the next temporary error waits 5 milliseconds.
C9_BackoffDelays ==
    /\ tempDelay <= 1000
    /\ servePc = "backoff" =>
        /\ tempErrs >= 1
        /\ tempDelay = (IF 5 * 2^(tempErrs - 1) > 1000 THEN 1000
                        ELSE 5 * 2^(tempErrs - 1))
    /\ (servePc = "accept" /\ tempErrs = 0) => tempDelay = 0

C9_Witness ==
    /\ servePc = "backoff"
    /\ hPc[1] # "none"
    /\ tempErrs = 9
    /\ tempDelay = 1000

\* C10: while Serve waits in the select after a temporary error with s.stop
\* closed, it can go on at once, and if it goes on before the timer has
\* fired, it returns: it does not go back to Accept.
C10_StopCutsBackoff ==
    /\ []((servePc = "backoff" /\ stop /\ ~panicked) => ENABLED ServeBackoff)
    /\ [][(servePc = "backoff" /\ stop /\ ~timerFired /\ servePc' # "backoff")
            => (servePc' = "deferDone" /\ backoffCut')]_vars
    /\ [](backoffCut => servePc \in {"deferDone", "deferTake", "deferClose", "done"})

C10_Witness ==
    /\ backoffCut
    /\ servePc = "done"

\* C11: on an accept error that is not temporary Serve goes to its exit and
\* never back to Accept; the error is logged exactly when s.stop is not
\* closed at the select of line 92; and an error that comes from the listener
\* being closed is met with s.stop closed, so it is never logged.
InExit == servePc \in {"acceptErr", "deferDone", "deferTake", "deferClose", "done"}

C11_FatalAcceptError ==
    /\ [][(servePc = "acceptErr" /\ servePc' # "acceptErr")
            => (servePc' = "deferDone" /\ errReported' = ~stop)]_vars
    /\ [][(servePc = "accept" /\ servePc' = "acceptErr") => ~errReported']_vars
    /\ [][InExit => InExit']_vars
    /\ []((lstate = "closed" /\ servePc \in {"accept", "backoff", "acceptErr"}) => stop)
    /\ [](errReported => InExit /\ servePc # "acceptErr")

C11_Witness ==
    /\ errReported
    /\ ~stop
    /\ servePc = "deferDone"

\* C12: a Conn the server registered is in exactly one of three places: in
\* the registry, deleted from it by its own removeConn, or in the registry
\* that a Stop took. A Conn leaves the registry only by its own removeConn,
\* which takes nothing else with it, or by Stop taking the whole registry; it
\* never comes back; removeConn on a nil registry changes nothing.
InRegistry(c) == c \in conns.m
TakenByStop(c) == \E t \in Stoppers : c \in stopConns[t].m

C12_UnregisteredOnce ==
    /\ [](\A c \in ConnIds :
            /\ registered[c] =>
                \/ InRegistry(c) /\ ~removed[c] /\ ~TakenByStop(c)
                \/ ~InRegistry(c) /\ removed[c] /\ ~TakenByStop(c)
                \/ ~InRegistry(c) /\ ~removed[c] /\ TakenByStop(c)
            /\ ~registered[c] => ~InRegistry(c) /\ ~removed[c] /\ ~TakenByStop(c)
            /\ (registered[c] /\ Finished(c)) => ~InRegistry(c))
    /\ [][\A c \in ConnIds :
            /\ (InRegistry(c) /\ ~InRegistry(c)') =>
                \/ /\ hPc[c] = "remove" /\ hPc'[c] = "wgDone"
                   /\ conns' = [conns EXCEPT !.m = @ \ {c}]
                \/ /\ conns' = NilMap
                   /\ \E t \in Stoppers : stopPc[t] = "take" /\ stopConns'[t] = conns
            /\ (registered[c] /\ ~InRegistry(c)) => ~InRegistry(c)'
            /\ (hPc[c] = "remove" /\ hPc'[c] # "remove" /\ conns.nil)
                => (conns' = conns /\ removed'[c] = removed[c])]_vars

C12_Witness ==
    \E c, d \in ConnIds :
        /\ removed[c] /\ hPc[c] = "done"
        /\ TakenByStop(d) /\ hPc[d] = "done"

\* C13: every step that reads or writes s.lis or s.conns is taken by the
\* goroutine that holds s.mu, and no step that calls Close on the listener,
\* Close on a raw stream or Conn.Stop is taken by the goroutine that holds
\* s.mu, nor does such a step lock or unlock it.
ServeActs == servePc' # servePc
StopActs(t) == stopPc'[t] # stopPc[t] \/ stopLeft'[t] # stopLeft[t]
ConnActs(c) == hPc'[c] # hPc[c]
Teardown ==
    \/ lisCloses' # lisCloses
    \/ rawClosed' # rawClosed
    \/ connStopped' # connStopped
    \/ srvStops' # srvStops

C13_LockDiscipline ==
    [][/\ (lis' # lis \/ conns' # conns) => (mu # Free /\ mu' = Free)
       /\ (servePc \in {"store", "deferTake"} /\ ServeActs) => mu = ServeOwner
       /\ \A t \in Stoppers : (stopPc[t] = "take" /\ StopActs(t)) => mu = StopOwner(t)
       /\ \A c \in ConnIds :
            (hPc[c] \in {"check", "add", "remove"} /\ ConnActs(c)) => mu = ConnOwner(c)
       /\ Teardown =>
            /\ mu' = mu
            /\ ServeActs => mu # ServeOwner
            /\ \A t \in Stoppers : StopActs(t) => mu # StopOwner(t)
            /\ \A c \in ConnIds : ConnActs(c) => mu # ConnOwner(c)]_vars

C13_Witness ==
    \E c \in ConnIds, t \in Stoppers :
        /\ mu = ConnOwner(c)
        /\ hPc[c] = "add"
        /\ stopPc[t] = "fanout"
        /\ lisCloses = 1
        /\ \E d \in ConnIds : rejectedAt[d] = "check" /\ rawClosed[d]

\* C14: a Stop(StopGracefullyAndWait) called on a server whose Serve was
\* started eventually returns (unless the process has died).
C14_BlockingStopReturns ==
    \A t \in Stoppers :
        (stopPc[t] # "idle" /\ stopMode[t] = StopGracefullyAndWait /\ stopAfterServe[t])
            ~> (stopPc[t] = "done" \/ panicked)

\* C16: when server.Stop(StopGracefullyAndWait) has returned in TestXTCP,
\* the server handler's sends equal the client handler's recvs and the
\* client handler's sends equal the server handler's recvs.
C16_EchoSymmetry ==
    testPc = "checked" =>
        /\ eSends["server"] = eRecvs["client"]
        /\ eSends["client"] = eRecvs["server"]

\* C17: the read loop fed with the frames of P1..Pn, in chunks of any sizes,
\* has always received a prefix of P1..Pn, holds in its buffer exactly the
\* bytes read of the frame not yet complete, never fails, and has received
\* P1..Pn when the stream is read to its end. Unpack of a strict prefix of a
\* frame is (no packet, 0, no error); Unpack of a buffer that starts with a
\* whole frame is that frame's packet and its PackSize.
IsPrefix(s, t) == Len(s) <= Len(t) /\ s = SubSeq(t, 1, Len(s))

C17_FramingRoundTrip ==
    /\ ~fFailed
    /\ IsPrefix(fOut, fPackets)
    /\ Frames(fOut) \o fBuf \o fWire = Frames(fPackets)
    /\ Len(fOut) < Len(fPackets) => Len(fBuf) < PackSize(fPackets[Len(fOut) + 1])
    /\ fWire = <<>> => (fOut = fPackets /\ fBuf = <<>>)
    /\ \A i \in 1..Len(fPackets) :
        LET frame == Pack(fPackets[i])
            rest == Frames(SubSeq(fPackets, i + 1, Len(fPackets)))
        IN  /\ Len(frame) = PackSize(fPackets[i])
            /\ \A k \in 0..(Len(frame) - 1) :
                  Unpack(SubSeq(frame, 1, k)) =
                      [p |-> NoPacket, n |-> 0, err |-> FALSE, panic |-> FALSE]
            /\ \A k \in 0..Len(rest) :
                  Unpack(frame \o SubSeq(rest, 1, k)) =
                      [p |-> [some |-> TRUE, msg |-> fPackets[i]],
                       n |-> PackSize(fPackets[i]), err |-> FALSE, panic |-> FALSE]

C17_Witness ==
    /\ Len(fPackets) = MaxPackets
    /\ Len(fOut) = 1
    /\ fOut[1] # <<>>
    /\ Len(fBuf) > 4
    /\ fWire # <<>>

\* C18: when handleRawConn has returned, the raw stream it was given is
\* closed or was bound to a Conn on which serve was run.
C18_NoOrphanStream ==
    \A c \in ConnIds : hPc[c] = "done" => (rawClosed[c] \/ served[c])

\* C19: s.wg never goes below zero and always equals the Add(1) calls not yet
\* matched by a Done: Serve's between line 55 and its deferred Done, each
\* handleRawConn's between line 169 and its deferred Done. No goroutine calls
\* Done before its Add or more than once, and the counter is zero when Serve
\* and every handleRawConn have ended.
ServeCounted == IF servePc \in {"idle", "add", "deferTake", "deferClose", "done"} THEN 0 ELSE 1

RECURSIVE SumOver(_, _)
SumOver(f, S) ==
    IF S = {} THEN 0
    ELSE LET x == CHOOSE y \in S : TRUE IN f[x] + SumOver(f, S \ {x})

C19_CounterBalanced ==
    /\ wg >= 0
    /\ panicked => \E t \in Stoppers : stopPc[t] = "panic"
    /\ wg = ServeCounted + SumOver(hAdds, ConnIds) - SumOver(hDones, ConnIds)
    /\ \A c \in ConnIds :
        /\ hDones[c] <= hAdds[c] /\ hAdds[c] <= 1
        /\ hAdds[c] = 1 <=> hPc[c] \in {"serving", "remove", "wgDone"} \/ hDones[c] = 1
        /\ hDones[c] = 1 => hPc[c] = "done"
        /\ hPc[c] = "done" => hAdds[c] = hDones[c]
    /\ (servePc \in {"idle", "done"} /\ \A c \in ConnIds : Finished(c)) => wg = 0

C19_Witness ==
    /\ servePc = "done"
    /\ \A c \in ConnIds : hPc[c] = "done" /\ hAdds[c] = 1 /\ hDones[c] = 1
    /\ wg = 0

\* C20: Close is called at most once on the listener, by Serve's deferred
\* function or by Stop, whichever takes the handle out of s.lis.
C20_ListenerClosedOnce ==
    /\ lisCloses <= 1
    /\ lisCloses = 1 <=> lstate = "closed"
    /\ lis => lstate = "open"

C20_Witness ==
    /\ lisCloses = 1
    /\ servePc = "done"
    /\ \E t \in Stoppers : stopPc[t] = "done" /\ stopAfterServe[t]
====
